---- MODULE Spec2Model ----
(***************************************************************************)
(* A model of farcy, a code review bot for GitHub pull requests.           *)
(*                                                                         *)
(*   src/farcy/__init__.py   Farcy: added_lines, events, handle_pr, ...    *)
(*   src/farcy/helpers.py    added_lines, extract_issues, issues_by_line,  *)
(*                           subtract_issues_by_line                       *)
(*                                                                         *)
(* The module holds four specifications over one set of variables:         *)
(*   SpecPatch   the two added_lines parsers applied to a diff fragment    *)
(*   SpecLedger  subtract_issues_by_line applied to two mappings           *)
(*   SpecReview  Farcy.handle_pr run over one pull request, pass by pass   *)
(*   Spec        the polling loop of Farcy.events against a growing feed   *)
(***************************************************************************)
EXTENDS Integers, Sequences, FiniteSets, TLC

VARIABLES
    \* ---- SpecPatch
    patch,          \* the fragment, as patch.split('\n') sees it
    helperOut,      \* result of helpers.added_lines(patch)
    farcyOut,       \* result of Farcy.added_lines(patch)
    pcPatch,        \* "input" | "done" | "idle"
    \* ---- SpecLedger
    found,          \* by_line  argument of subtract_issues_by_line
    reported,       \* by_line2 argument of subtract_issues_by_line
    ledgerOut,      \* its result
    pcLedger,       \* "input" | "done" | "idle"
    \* ---- SpecReview
    prState,        \* pr.state after pr.refresh()
    prFiles,        \* pr.files(): a sequence of changed files
    comments,       \* the review comments the service holds for the pull request
    statuses,       \* the commit statuses the service holds
    passes,         \* handling passes started so far
    lastPass,       \* what the latest pass did (comments posted, outcome)
    prCommits,      \* pr.commits(): the shas of the pull request's commits, oldest first
    \* ---- Spec (event cursor)
    feed,           \* the repository's events, newest first
    clock,          \* wall-clock time of the service
    start_time,     \* Farcy.start_time
    last_event_id,  \* Farcy.last_event_id
    etag,           \* etag local of Farcy.events
    sleep_time,     \* sleep_time local of Farcy.events
    history,        \* the poll cycles so far: what each yielded, in order
    cycle,          \* the latest poll cycle: what it fetched, and the locals it began with
    pcEvents,       \* "polling" | "crashed" | "idle"
    \* ---- SpecRun (the run loop)
    open_prs,       \* Farcy.open_prs: head branch -> pull request
    pulls,          \* what the service holds for each pull request: comments, statuses
    lastEvent,      \* the event run() dispatched last
    handled,        \* the handle_pr calls made for lastEvent: the pull requests, in order
    current,        \* the pull request of the pass in progress
    todo,           \* what the pass in progress has yet to post
    emitted,        \* what it has posted
    dispatched,     \* events dispatched so far
    pcRun,          \* "waiting" | "handling" | "exited" | "crashed" | "idle"
    snapshot,       \* the head branches with an open pull request at startup
    lastAction,     \* head branch -> action of its latest opened/closed/reopened event
    openBefore,     \* open_prs as it was when lastEvent was dispatched
    \* ---- SpecText (the comment convention)
    messages,       \* the issue messages of one line, in discovery order
    body,           \* a review comment's body
    author,         \* who wrote body: "farcy" | "other" | "none"
    parsed,         \* is_farcy_comment(body) and extract_issues(body)
    pcText          \* "input" | "written" | "done" | "idle"

patchVars  == <<patch, helperOut, farcyOut, pcPatch>>
ledgerVars == <<found, reported, ledgerOut, pcLedger>>
reviewVars == <<prState, prFiles, prCommits, comments, statuses, passes, lastPass>>
eventVars  == <<feed, clock, start_time, last_event_id, etag, sleep_time,
                history, cycle, pcEvents>>
runVars    == <<open_prs, pulls, lastEvent, handled, current, todo, emitted,
                dispatched, pcRun, snapshot, lastAction, openBefore>>
textVars   == <<messages, body, author, parsed, pcText>>
vars == <<patchVars, ledgerVars, reviewVars, eventVars, runVars, textVars>>

(***************************************************************************)
(* Bounds of the model.                                                    *)
(***************************************************************************)
MaxPatchLen == 4      \* lines of a fragment in SpecPatch
MaxHunkStart == 2     \* largest new-file start a hunk header names
MaxLine == 2          \* largest line number an analyzer reports an issue on
MaxIssuesPerLine == 2 \* issues an analyzer reports on one line
MaxPasses == 2        \* handling passes over the pull request in SpecReview
MaxOldEvents == 1     \* events the feed holds when Farcy is constructed
MaxEvents == 3        \* events the feed ever holds
MaxStartEvent == 3    \* largest --start event id
MaxPolls == 2         \* poll cycles of Farcy.events
MaxClock == 2         \* latest wall-clock time
MaxDispatch == 3      \* events handed to run()
MaxMsgLen == 2        \* characters of an issue message in SpecText
MaxMsgs == 2          \* issue messages on one line in SpecText

(***************************************************************************)
(* Python values.                                                          *)
(***************************************************************************)
\* None where an int is expected (lineno, last_event_id, start_time, ...).
NoneInt == -1

\* The empty dict.
EmptyDict == [x \in {} |-> 0]

\* d[k] = v on a dict held as a function.
DictSet(d, k, v) == [x \in (DOMAIN d) \cup {k} |-> IF x = k THEN v ELSE d[x]]

(***************************************************************************)
(* Diff fragments.  A line is classified by the prefix tests of            *)
(* added_lines; a hunk header carries the number NUMBER_RE reads after     *)
(* its '+'.                                                                *)
(***************************************************************************)
HunkLine(n) == [k |-> "@@", n |-> n]
CtxLine     == [k |-> " ", n |-> 0]
AddLine     == [k |-> "+", n |-> 0]
DelLine     == [k |-> "-", n |-> 0]
\* "\ No newline at end of file"
MarkerLine  == [k |-> "\\ No newline at end of file", n |-> 0]
\* a line with any other first character
OtherLine   == [k |-> "?", n |-> 0]
\* the empty line: ''.split('\n') == [''], and a trailing '\n' leaves one
EmptyLine   == [k |-> "", n |-> 0]

HunkLines == {HunkLine(n) : n \in 1..MaxHunkStart}
LineSet == HunkLines \cup {CtxLine, AddLine, DelLine, MarkerLine, OtherLine, EmptyLine}

\* The state of the scan: the locals of added_lines, and the exception (if any)
\* that ended it.
ScanInit == [added |-> EmptyDict, lineno |-> NoneInt, position |-> 0, err |-> "none"]

\* lineno += 1 raises TypeError while lineno is None.
BumpLineno(st) ==
    IF st.lineno = NoneInt THEN [st EXCEPT !.err = "TypeError"]
    ELSE [st EXCEPT !.lineno = @ + 1]

\* A mutant: the position counter is reset at each hunk header.
helpers_step_reset(st, line) ==
    IF line.k = "@@" THEN [st EXCEPT !.lineno = line.n, !.position = 1]
    ELSE IF line.k = " " THEN
        LET s1 == BumpLineno(st) IN
        IF s1.err # "none" THEN s1 ELSE [s1 EXCEPT !.position = @ + 1]
    ELSE IF line.k = "+" THEN
        LET s1 == BumpLineno([st EXCEPT !.added = DictSet(@, st.lineno, st.position)]) IN
        IF s1.err # "none" THEN s1 ELSE [s1 EXCEPT !.position = @ + 1]
    ELSE IF line = MarkerLine THEN st
    ELSE IF line.k = "-" THEN [st EXCEPT !.position = @ + 1]
    ELSE [st EXCEPT !.err = "AssertionError"]

\* One iteration of the loop of helpers.added_lines.
helpers_step(st, line) ==
    IF line.k = "@@" THEN [st EXCEPT !.lineno = line.n, !.position = @ + 1]
    ELSE IF line.k = " " THEN
        LET s1 == BumpLineno(st) IN
        IF s1.err # "none" THEN s1 ELSE [s1 EXCEPT !.position = @ + 1]
    ELSE IF line.k = "+" THEN
        \* added[lineno] = position; lineno += 1
        LET s1 == BumpLineno([st EXCEPT !.added = DictSet(@, st.lineno, st.position)]) IN
        IF s1.err # "none" THEN s1 ELSE [s1 EXCEPT !.position = @ + 1]
    ELSE IF line = MarkerLine THEN st          \* continue: position is not advanced
    ELSE IF line.k = "-" THEN [st EXCEPT !.position = @ + 1]
    ELSE [st EXCEPT !.err = "AssertionError"]

\* One iteration of the loop of Farcy.added_lines: no marker branch.
farcy_step(st, line) ==
    IF line.k = "@@" THEN [st EXCEPT !.lineno = line.n, !.position = @ + 1]
    ELSE IF line.k = " " THEN
        LET s1 == BumpLineno(st) IN
        IF s1.err # "none" THEN s1 ELSE [s1 EXCEPT !.position = @ + 1]
    ELSE IF line.k = "+" THEN
        LET s1 == BumpLineno([st EXCEPT !.added = DictSet(@, st.lineno, st.position)]) IN
        IF s1.err # "none" THEN s1 ELSE [s1 EXCEPT !.position = @ + 1]
    ELSE IF line.k = "-" THEN [st EXCEPT !.position = @ + 1]
    ELSE [st EXCEPT !.err = "AssertionError"]

RECURSIVE helpers_scan(_, _, _)
helpers_scan(lines, i, st) ==
    IF i > Len(lines) \/ st.err # "none" THEN st
    ELSE helpers_scan(lines, i + 1, helpers_step(st, lines[i]))

RECURSIVE farcy_scan(_, _, _)
farcy_scan(lines, i, st) ==
    IF i > Len(lines) \/ st.err # "none" THEN st
    ELSE farcy_scan(lines, i + 1, farcy_step(st, lines[i]))

\* helpers.added_lines(patch): the dict returned, or the exception raised.
added_lines(lines) ==
    LET st == helpers_scan(lines, 1, ScanInit) IN [err |-> st.err, added |-> st.added]

\* Farcy.added_lines(patch), the one handle_pr calls.
Farcy_added_lines(lines) ==
    LET st == farcy_scan(lines, 1, ScanInit) IN [err |-> st.err, added |-> st.added]

NoResult == [err |-> "unset", added |-> EmptyDict]

(***************************************************************************)
(* The variables of the specifications that are not running.               *)
(***************************************************************************)
\* The record of a handling pass that has not run.
NoPass == [ran |-> FALSE, posted |-> <<>>, crashed |-> "none", status |-> <<>>,
           issue_count |-> 0, did_work |-> FALSE, exception |-> FALSE,
           worked |-> {}, skipped |-> {}, failed |-> {}]

\* No poll cycle has run.
NoCycle == [itr |-> <<>>, last_event_id |-> NoneInt, hint |-> NoneInt,
            sleep_time |-> NoneInt]

\* No event has been dispatched; no pull request is being handled.
NoEvent == [type |-> "none", action |-> "", number |-> 0, ref |-> <<>>]
NoPull == 0

\* No body has been read.
NoParse == [recognized |-> FALSE, issues |-> <<>>]

IdlePatch  == patch = <<>> /\ helperOut = NoResult /\ farcyOut = NoResult
              /\ pcPatch = "idle"
IdleLedger == found = EmptyDict /\ reported = EmptyDict /\ ledgerOut = EmptyDict
              /\ pcLedger = "idle"
IdleReview == prState = "idle" /\ prFiles = <<>> /\ comments = <<>> /\ statuses = <<>>
              /\ prCommits = <<>> /\ passes = 0 /\ lastPass = NoPass
IdleEvents == feed = <<>> /\ clock = 0 /\ start_time = NoneInt
              /\ last_event_id = NoneInt /\ etag = NoneInt /\ sleep_time = NoneInt
              /\ history = <<>> /\ cycle = NoCycle /\ pcEvents = "idle"
IdleRun    == open_prs = EmptyDict /\ pulls = EmptyDict /\ lastEvent = NoEvent
              /\ handled = <<>> /\ current = NoPull /\ todo = <<>> /\ emitted = <<>>
              /\ dispatched = 0 /\ pcRun = "idle"
              /\ snapshot = {} /\ lastAction = EmptyDict /\ openBefore = EmptyDict
IdleText   == messages = <<>> /\ body = <<>> /\ author = "none" /\ parsed = NoParse
              /\ pcText = "idle"

(***************************************************************************)
(* SpecPatch: both parsers applied to every fragment of up to MaxPatchLen  *)
(* lines.                                                                  *)
(***************************************************************************)
RECURSIVE SeqsUpTo(_, _)
SeqsUpTo(S, n) ==
    IF n = 0 THEN {<<>>}
    ELSE LET shorter == SeqsUpTo(S, n - 1) IN
         shorter \cup {Append(s, x) : s \in {t \in shorter : Len(t) = n - 1}, x \in S}

\* patch.split('\n') never returns the empty list.
Fragments == SeqsUpTo(LineSet, MaxPatchLen) \ {<<>>}

InitPatch ==
    /\ patch \in Fragments
    /\ helperOut = NoResult /\ farcyOut = NoResult
    /\ pcPatch = "input"
    /\ IdleLedger /\ IdleReview /\ IdleEvents /\ IdleRun /\ IdleText

\* added = added_lines(patch), by both definitions of the repository.
ApplyAddedLines ==
    /\ pcPatch = "input"
    /\ helperOut' = added_lines(patch)
    /\ farcyOut' = Farcy_added_lines(patch)
    /\ pcPatch' = "done"
    /\ UNCHANGED <<patch, ledgerVars, reviewVars, eventVars, runVars, textVars>>

NextPatch == ApplyAddedLines

SpecPatch == InitPatch /\ [][NextPatch]_vars

(***************************************************************************)
(* What a fragment says, read off the fragment itself (not by the scan).   *)
(***************************************************************************)
Max(S) == CHOOSE x \in S : \A y \in S : y <= x

PlusIdx(p) == {i \in 1..Len(p) : p[i].k = "+"}
HunkIdx(p) == {i \in 1..Len(p) : p[i].k = "@@"}

\* The post-change line number of the line that follows p[1..i]: the start the last
\* hunk header names plus the context and added lines since.
Reached(p, i) ==
    LET h == Max({j \in HunkIdx(p) : j <= i}) IN
    p[h].n + Cardinality({j \in (h + 1)..i : p[j].k \in {" ", "+"}})

\* The post-change line number of line i of the fragment.
PostLine(p, i) == Reached(p, i - 1)

\* Hunks only: a header first, then headers, context, added and removed lines (and
\* the lines of `more`), each hunk starting at or after the line the last one reached.
HunksWith(p, more) ==
    /\ Len(p) > 0 /\ p[1].k = "@@"
    /\ \A i \in 1..Len(p) : p[i].k \in {"@@", " ", "+", "-"} \cup more
    /\ \A i \in HunkIdx(p) : i > 1 => p[i].n >= Reached(p, i - 1)

ValidHunks(p) == HunksWith(p, {})

\* out maps exactly the '+' lines, each post-change line number to the 0-based index
\* of its line in the fragment.
MapsTrueIndex(p, out) ==
    /\ out.err = "none"
    /\ DOMAIN out.added = {PostLine(p, i) : i \in PlusIdx(p)}
    /\ \A i \in PlusIdx(p) : out.added[PostLine(p, i)] = i - 1

\* C3: for a fragment made only of valid hunks, added_lines (either definition) returns
\* a map whose keys are exactly the post-change line numbers of the '+' lines, each
\* mapped to its line's 0-based index in the fragment (the position is never reset), so
\* the values strictly increase in the order of the '+' lines.
C3_AddedLinesValidHunks ==
    (pcPatch = "done" /\ ValidHunks(patch)) =>
        \A out \in {helperOut, farcyOut} :
            /\ MapsTrueIndex(patch, out)
            /\ \A i, j \in PlusIdx(patch) :
                   i < j => out.added[PostLine(patch, i)] < out.added[PostLine(patch, j)]

\* Reached: a parsed fragment of two hunks, each with an added line.
C3_Witness ==
    /\ pcPatch = "done" /\ ValidHunks(patch)
    /\ \E i, j, l \in 1..Len(patch) :
           i < j /\ j < l /\ patch[i].k = "+" /\ patch[j].k = "@@" /\ patch[l].k = "+"
    /\ helperOut.err = "none" /\ Cardinality(DOMAIN helperOut.added) = 2

\* C10: helpers.added_lines skips a "No newline at end of file" marker without
\* recording it or changing lineno but still advances the position by one, so every
\* '+' line is mapped to its true 0-based index in the fragment.
C10_MarkerAdvancesPosition ==
    (pcPatch = "done" /\ HunksWith(patch, {MarkerLine.k})) =>
        MapsTrueIndex(patch, helperOut)

\* A fragment with zero hunks and nothing else: '' (split gives it one empty line), or
\* newlines only.
ZeroHunks(p) ==
    \A i \in 1..Len(p) : p[i] = EmptyLine

\* C11: added_lines (either definition) applied to a fragment with zero hunks, the
\* empty fragment included, returns an empty map and raises no error.
C11_ZeroHunksEmptyMap ==
    (pcPatch = "done" /\ ZeroHunks(patch)) =>
        \A out \in {helperOut, farcyOut} :
            out.err = "none" /\ out.added = EmptyDict

(***************************************************************************)
(* Issues.  An issue is its message, a text; a text is a sequence of       *)
(* characters (a multi-character token stands for a run of characters      *)
(* that none of the code's tests looks into).                              *)
(***************************************************************************)
Msgs == {<<"E">>, <<"W">>}

\* value in list
InList(v, list) == \E i \in 1..Len(list) : list[i] = v

\* by_line2.get(key, [])
DictGet(d, key, default) == IF key \in DOMAIN d THEN d[key] ELSE default

\* A mutant: a line whose issues are all filtered out is kept, with an empty list.
subtract_keep_empty(by_line, by_line2) ==
    [key \in DOMAIN by_line |->
        LET exclude == DictGet(by_line2, key, <<>>) IN
        SelectSeq(by_line[key], LAMBDA value : ~InList(value, exclude))]

\* A mutant: an issue is excluded when it is reported on any line.
subtract_any_line(by_line, by_line2) ==
    LET filtered(key) ==
            SelectSeq(by_line[key],
                      LAMBDA value : \A k \in DOMAIN by_line2 : ~InList(value, by_line2[k]))
        keys == {key \in DOMAIN by_line : filtered(key) # <<>>}
    IN  [key \in keys |-> filtered(key)]

\* helpers.subtract_issues_by_line
subtract_issues_by_line(by_line, by_line2) ==
    LET filtered(key) ==
            LET exclude == DictGet(by_line2, key, <<>>) IN
            SelectSeq(by_line[key], LAMBDA value : ~InList(value, exclude))
        keys == {key \in DOMAIN by_line : filtered(key) # <<>>}
    IN  [key \in keys |-> filtered(key)]

(***************************************************************************)
(* SpecLedger: subtract_issues_by_line applied to every pair of mappings   *)
(* within the bounds.                                                      *)
(***************************************************************************)
\* Every mapping from some lines of 1..maxLine to a list of `lists`.
MapsOver(maxLine, lists) ==
    UNION {[L -> lists] : L \in SUBSET (1..maxLine)}

IssueLists == SeqsUpTo(Msgs, MaxIssuesPerLine)

\* What an analyzer can return: lines with issues, and lines with an empty list.
IssueMaps == MapsOver(MaxLine, IssueLists)

\* Only membership in by_line2's lists is read: one list per set of messages.
ReportedLists == {<<>>, <<<<"E">>>>, <<<<"W">>>>, <<<<"E">>, <<"W">>>>}

InitLedger ==
    /\ found \in IssueMaps
    /\ reported \in MapsOver(MaxLine, ReportedLists) \cup {found}
    /\ ledgerOut = EmptyDict
    /\ pcLedger = "input"
    /\ IdlePatch /\ IdleReview /\ IdleEvents /\ IdleRun /\ IdleText

ApplySubtract ==
    /\ pcLedger = "input"
    /\ ledgerOut' = subtract_issues_by_line(found, reported)
    /\ pcLedger' = "done"
    /\ UNCHANGED <<found, reported, patchVars, reviewVars, eventVars, runVars, textVars>>

NextLedger == ApplySubtract

SpecLedger == InitLedger /\ [][NextLedger]_vars

\* by_line without the lines that hold an empty list
NonEmptyLines(by_line) ==
    [key \in {k \in DOMAIN by_line : by_line[k] # <<>>} |-> by_line[key]]

\* C4 as stated: subtract_issues_by_line(found, {}) == found and
\* subtract_issues_by_line(found, found) == {}, for every mapping found, a mapping that
\* holds a line with an empty issue list included.
C4_SubtractIdentities ==
    pcLedger = "done" =>
        /\ reported = EmptyDict => ledgerOut = found
        /\ reported = found => ledgerOut = EmptyDict

\* C4 as amended: subtract_issues_by_line(found, {}) is found without its lines that
\* hold an empty issue list (so it is found when no line is empty), and
\* subtract_issues_by_line(found, found) == {}.
C4_SubtractIdentitiesAmended ==
    pcLedger = "done" =>
        /\ reported = EmptyDict => ledgerOut = NonEmptyLines(found)
        /\ reported = found => ledgerOut = EmptyDict

\* Reached: nothing reported, and found holds an empty line beside a line with issues.
C4_Witness ==
    /\ pcLedger = "done" /\ reported = EmptyDict
    /\ \E k1, k2 \in DOMAIN found : found[k1] = <<>> /\ Len(found[k2]) = 2
    /\ ledgerOut # found /\ ledgerOut # EmptyDict

\* The elements of a sequence, the values of a mapping.
Range(f) == {f[i] : i \in DOMAIN f}

\* The places of the list found[key] whose issue is not among reported's for the line.
KeptAt(key) ==
    {i \in 1..Len(found[key]) : found[key][i] \notin Range(DictGet(reported, key, <<>>))}

\* out is the list `list` cut down to its places `at`, in the order of `list`.
CutDownTo(out, list, at) ==
    /\ Len(out) = Cardinality(at)
    /\ \A j \in 1..Len(out) :
           \E i \in at : /\ out[j] = list[i]
                          /\ Cardinality({h \in at : h < i}) = j - 1

\* The result of the last call, against its arguments.
SubtractResultExact ==
    pcLedger = "done" =>
        /\ DOMAIN ledgerOut = {key \in DOMAIN found : KeptAt(key) # {}}
        /\ \A key \in DOMAIN ledgerOut :
               /\ ledgerOut[key] # <<>>
               /\ CutDownTo(ledgerOut[key], found[key], KeptAt(key))
               /\ Range(ledgerOut[key]) \subseteq Range(found[key])

\* C18: subtract_issues_by_line(found, reported) holds, for each line of found, exactly
\* the issues of found on that line that are not among reported's for the same line, in
\* their original order; it holds no line whose filtered list is empty and nothing that
\* is not in found; and the call leaves found and reported as they were.
C18_SubtractExact ==
    /\ []SubtractResultExact
    /\ [][found' = found /\ reported' = reported]_vars

\* Reached: a call that cut one line down to its later issue, the earlier one being
\* reported on that line, and dropped another line whose issues were all reported.
C18_Witness ==
    /\ pcLedger = "done"
    /\ \E k1, k2 \in DOMAIN found :
           /\ Len(found[k1]) = 2 /\ KeptAt(k1) = {2} /\ ledgerOut[k1] = <<found[k1][2]>>
           /\ found[k2] # <<>> /\ KeptAt(k2) = {} /\ k2 \notin DOMAIN ledgerOut

(***************************************************************************)
(* Comment texts.  '\n'.join, str.split, str.startswith and line[2:] on    *)
(* texts held as sequences of characters.                                  *)
(***************************************************************************)
NL == "\n"

\* FARCY_COMMENT_START of farcy/const.py: the sentinel marker, then the version tag.
FARCY_COMMENT_START == <<"_farcy ", "v", "1.0_">>

\* text.startswith(prefix)
StartsWith(text, prefix) ==
    Len(text) >= Len(prefix) /\ SubSeq(text, 1, Len(prefix)) = prefix

\* text.split(ch): the pieces between the occurrences of ch, at least one piece
RECURSIVE SplitOn(_, _)
SplitOn(text, ch) ==
    IF \A i \in 1..Len(text) : text[i] # ch THEN <<text>>
    ELSE LET i == CHOOSE j \in 1..Len(text) :
                      text[j] = ch /\ \A l \in 1..(j - 1) : text[l] # ch
         IN  <<SubSeq(text, 1, i - 1)>> \o SplitOn(SubSeq(text, i + 1, Len(text)), ch)

\* sep.join(parts)
RECURSIVE Join(_, _)
Join(parts, sep) ==
    IF parts = <<>> THEN <<>>
    ELSE IF Len(parts) = 1 THEN parts[1]
    ELSE parts[1] \o <<sep>> \o Join(Tail(parts), sep)

\* IS_FARCY_COMMENT = FARCY_COMMENT_START.split('v')[0]
IS_FARCY_COMMENT == SplitOn(FARCY_COMMENT_START, "v")[1]

\* helpers.is_farcy_comment
is_farcy_comment(text) == StartsWith(text, IS_FARCY_COMMENT)

\* helpers.extract_issues: [line[2:] for line in text.split('\n')[1:]]
extract_issues(text) ==
    IF ~is_farcy_comment(text) THEN <<>>
    ELSE LET lines == Tail(SplitOn(text, NL)) IN
         [i \in 1..Len(lines) |-> SubSeq(lines[i], 3, Len(lines[i]))]

\* helpers.issues_by_line: the issues of the comments on `path`, keyed by the
\* comments' position.
RECURSIVE issues_by_line(_, _)
issues_by_line(cs, path) ==
    IF cs = <<>> THEN EmptyDict
    ELSE LET by_line == issues_by_line(SubSeq(cs, 1, Len(cs) - 1), path)
             comment == cs[Len(cs)]
             issues  == extract_issues(comment.body)
         IN  IF comment.path = path /\ issues # <<>>
             THEN DictSet(by_line, comment.position,
                          DictGet(by_line, comment.position, <<>>) \o issues)
             ELSE by_line

\* A mutant: the bullet is the star alone.
BulletStar(x) == <<"*">> \o x

\* '* {0}'.format(x)
Bullet(x) == <<"*", " ">> \o x

(***************************************************************************)
(* Farcy.handle_pr.                                                        *)
(***************************************************************************)
\* pfile.patch is None
NonePatch == <<>>

\* sum(len(x) for x in issues.values())
RECURSIVE IssueTotal(_)
IssueTotal(issues) ==
    IF DOMAIN issues = {} THEN 0
    ELSE LET k == CHOOSE x \in DOMAIN issues : TRUE IN
         Len(issues[k]) + IssueTotal([x \in (DOMAIN issues) \ {k} |-> issues[x]])

\* A mutant: the lines are taken from the highest down.
RECURSIVE SortedDescending(_)
SortedDescending(S) ==
    IF S = {} THEN <<>>
    ELSE LET hi == CHOOSE x \in S : \A y \in S : x >= y
         IN  <<hi>> \o SortedDescending(S \ {hi})

\* sorted(S) for a set of integers
RECURSIVE Sorted(_)
Sorted(S) ==
    IF S = {} THEN <<>>
    ELSE LET lo == CHOOSE x \in S : \A y \in S : x <= y IN <<lo>> \o Sorted(S \ {lo})

\* A mutant: the restriction to the added lines is dropped.
EligibleAnyLine(added, lineno) == TRUE

\* `added is None or lineno in added`: added is a dict wherever the test is reached.
Eligible(added, lineno) == lineno \in DOMAIN added

\* by_line after the loop over process_issues: the sentinel line, then a bullet per
\* issue, for each eligible line.
CommentLines(added, process_issues) ==
    [lineno \in {l \in DOMAIN process_issues : Eligible(added, l)} |->
        <<FARCY_COMMENT_START>>
        \o [i \in 1..Len(process_issues[lineno]) |-> Bullet(process_issues[lineno][i])]]

\* The loop `for lineno, msgs in sorted(by_line.items())` from its i-th line on: a
\* review comment per line, at `added[lineno] if added else lineno`, which raises
\* KeyError for a line that a non-empty added does not hold.
RECURSIVE PostComments(_, _, _, _, _, _, _)
PostComments(acc, order, i, by_line, added, sha, filename) ==
    IF i > Len(order) THEN acc
    ELSE LET lineno == order[i] IN
         IF added # EmptyDict /\ lineno \notin DOMAIN added
         THEN [acc EXCEPT !.crashed = "KeyError"]
         ELSE LET position == IF added # EmptyDict THEN added[lineno] ELSE lineno
                  c == [body |-> Join(by_line[lineno], NL), sha |-> sha,
                        path |-> filename, position |-> position, line |-> lineno]
              IN  PostComments([acc EXCEPT !.posted = Append(@, c)],
                               order, i + 1, by_line, added, sha, filename)

\* Lines 279-311: the file's issues, less those already reported, on the added lines.
ReviewFile(acc, pfile, added, existing, sha) ==
    IF pfile.raises
    THEN [acc EXCEPT !.exception = TRUE, !.failed = @ \cup {pfile.filename}]
    ELSE LET issues == pfile.issues
             acc1 == [acc EXCEPT !.issue_count = @ + IssueTotal(issues)]
             process_issues ==
                 subtract_issues_by_line(issues, issues_by_line(existing, pfile.filename))
             by_line == CommentLines(added, process_issues)
         IN  PostComments(acc1, Sorted(DOMAIN by_line), 1, by_line, added, sha,
                          pfile.filename)

Skip(acc, pfile) == [acc EXCEPT !.skipped = @ \cup {pfile.filename}]

\* One iteration of `for pfile in pr.files()`, lines 252-311.
HandleFile(acc, pfile, existing, sha) ==
    IF pfile.status = "deleted" THEN Skip(acc, pfile)
    ELSE IF pfile.patch = NonePatch THEN Skip(acc, pfile)
    ELSE IF pfile.status \in {"modified", "added"} THEN
        \* self.added_lines(pfile.patch) is called outside any try block
        LET r == Farcy_added_lines(pfile.patch) IN
        IF r.err # "none" THEN [acc EXCEPT !.crashed = r.err]
        ELSE ReviewFile([acc EXCEPT !.did_work = TRUE,
                                    !.worked = @ \cup {pfile.filename}],
                        pfile, r.added, existing, sha)
    ELSE Skip(acc, pfile)

RECURSIVE HandleFiles(_, _, _, _, _)
HandleFiles(acc, files, i, existing, sha) ==
    IF i > Len(files) \/ acc.crashed # "none" THEN acc
    ELSE HandleFiles(HandleFile(acc, files[i], existing, sha), files, i + 1,
                     existing, sha)

\* list(pr.commits())[-1].sha
LastSha(commits) == commits[Len(commits)]

\* Lines 313-319.
StatusState(issue_count) == IF issue_count > 0 THEN "error" ELSE "success"

\* The locals of handle_pr at line 251; did_work starts out True (line 249).
PassInit == [NoPass EXCEPT !.ran = TRUE, !.did_work = TRUE]

\* handle_pr from line 247 to its end: the outcome of the pass.
ReviewPass(files, commits, existing) ==
    LET sha == LastSha(commits)
        acc == HandleFiles(PassInit, files, 1, existing, sha)
    IN  IF acc.crashed = "none" /\ acc.did_work /\ ~acc.exception
        THEN [acc EXCEPT !.status =
                  <<[sha |-> sha, state |-> StatusState(acc.issue_count)]>>]
        ELSE acc

\* What the service stores of a posted review comment.
Stored(c) == [body |-> c.body, sha |-> c.sha, path |-> c.path, position |-> c.position]

(***************************************************************************)
(* SpecReview: handle_pr run up to MaxPasses times over one pull request   *)
(* that nobody else touches, except to close it.                           *)
(***************************************************************************)
\* The fragments of the changed files: an added line whose number is its position,
\* added lines whose numbers are not, no added line, and a malformed line.
ReviewPatches ==
    { <<HunkLine(1), CtxLine, AddLine, CtxLine>>,
      <<HunkLine(1), DelLine, AddLine, AddLine>>,
      <<HunkLine(1), DelLine>>,
      <<HunkLine(1), AddLine, OtherLine>> }

\* What get_issues returns for a file: it raises, or a mapping.
ReviewIssueLists == { <<<<"E">>>>, <<<<"E">>, <<"W">>>> }
Analyses ==
    {[raises |-> TRUE, issues |-> EmptyDict]}
    \cup {[raises |-> FALSE, issues |-> m] : m \in MapsOver(MaxLine, ReviewIssueLists)}

PFile(filename, status, p, a) ==
    [filename |-> filename, status |-> status, patch |-> p,
     raises |-> a.raises, issues |-> a.issues]

NoAnalysis == [raises |-> FALSE, issues |-> EmptyDict]

\* The changed files the service can list under one name.  get_issues is not called
\* for a file the loop skips, so a skipped file comes with no analysis.
FileVariants(filename) ==
    {PFile(filename, "deleted", <<HunkLine(1), DelLine>>, NoAnalysis)}
    \cup {PFile(filename, st, NonePatch, NoAnalysis) : st \in {"modified", "added", "renamed"}}
    \cup {PFile(filename, "renamed", <<HunkLine(1), CtxLine, AddLine, CtxLine>>, NoAnalysis)}
    \cup {PFile(filename, st, p, a) :
              st \in {"modified", "added"}, p \in ReviewPatches, a \in Analyses}

PullRequests ==
    {<<f>> : f \in FileVariants("a.py")}
    \cup {<<f, g>> : f \in FileVariants("a.py"), g \in FileVariants("b.py")}

InitReview ==
    /\ prState = "open"
    /\ prFiles \in PullRequests
    /\ prCommits = <<"c1", "c2">>
    /\ comments = <<>> /\ statuses = <<>>
    /\ passes = 0 /\ lastPass = NoPass
    /\ IdlePatch /\ IdleLedger /\ IdleEvents /\ IdleRun /\ IdleText

\* handle_pr(pr).  An exception that leaves handle_pr is caught nowhere (run, main):
\* the process ends, and no later pass follows.
HandlePR ==
    /\ passes < MaxPasses
    /\ lastPass.crashed = "none"
    /\ passes' = passes + 1
    /\ IF prState # "open"
       THEN /\ lastPass' = NoPass
            /\ UNCHANGED <<comments, statuses>>
       ELSE LET r == ReviewPass(prFiles, prCommits, comments) IN
            /\ lastPass' = r
            /\ comments' = comments \o [i \in 1..Len(r.posted) |-> Stored(r.posted[i])]
            /\ statuses' = statuses \o r.status
    /\ UNCHANGED <<prState, prFiles, prCommits, patchVars, ledgerVars, eventVars,
                   runVars, textVars>>

\* The pull request is closed on the service.
ClosePR ==
    /\ prState = "open"
    /\ prState' = "closed"
    /\ UNCHANGED <<prFiles, prCommits, comments, statuses, passes, lastPass,
                   patchVars, ledgerVars, eventVars, runVars, textVars>>

NextReview == HandlePR \/ ClosePR

SpecReview == InitReview /\ [][NextReview]_vars

\* ---- the claims about handle_pr

FileNamed(path) == CHOOSE f \in Range(prFiles) : f.filename = path

\* C1: a second pass over an unchanged open pull request, with no comments but those
\* the first pass posted, posts no review comment.
C1_SecondPassPostsNothing ==
    (passes = 2 /\ lastPass.ran) => lastPass.posted = <<>>

\* C5: no review comment is posted on a file with status 'modified' for a line that is
\* not a key of the file's added-line map.
C5_OnlyAddedLinesOfModified ==
    \A i \in 1..Len(lastPass.posted) :
        LET c == lastPass.posted[i]
            f == FileNamed(c.path)
        IN  f.status = "modified" =>
                c.line \in DOMAIN Farcy_added_lines(f.patch).added

\* Reached: a modified file with issues on an added line and on a line that was not
\* added; the pass commented on the added line only.
C5_Witness ==
    /\ lastPass.ran
    /\ \E f \in Range(prFiles) :
           /\ f.status = "modified" /\ ~f.raises
           /\ \E l \in DOMAIN f.issues :
                  l \notin DOMAIN Farcy_added_lines(f.patch).added
           /\ \E i \in 1..Len(lastPass.posted) : lastPass.posted[i].path = f.filename

\* The issues the analyzers found in the files the pass analysed.
RECURSIVE FoundTotal(_, _)
FoundTotal(files, names) ==
    IF files = <<>> THEN 0
    ELSE (IF files[1].filename \in names THEN IssueTotal(files[1].issues) ELSE 0)
         + FoundTotal(Tail(files), names)

\* C6: a pass sets at most one commit status; its state is 'failure' if the pull
\* request's issue count is greater than 0 and 'success' otherwise, and it is attached
\* to the sha of the pull request's last commit.
C6_StatusFailureOrSuccess ==
    /\ Len(lastPass.status) <= 1
    /\ lastPass.status # <<>> =>
           /\ lastPass.status[1].state =
                  (IF FoundTotal(prFiles, lastPass.worked) > 0 THEN "failure" ELSE "success")
           /\ lastPass.status[1].sha = prCommits[Len(prCommits)]

\* C7: the count that decides the status is that of the issues left after removing the
\* reported ones and restricting to the added lines (the issues the pass comments on):
\* when none is left, the status set is 'success'.
C7_StatusFromRemainingIssues ==
    (lastPass.status # <<>> /\ lastPass.posted = <<>>) =>
        lastPass.status[1].state = "success"

\* C8: a commit status is set only if at least one changed file was processed (not
\* skipped as deleted, patch-less or of unknown status) and no processing error
\* occurred.
C8_StatusOnlyAfterWork ==
    lastPass.status # <<>> =>
        /\ lastPass.worked # {}
        /\ lastPass.failed = {}

\* A file whose fragment the loop parses and that holds a line that is no hunk header,
\* context, added, removed or marker line.
Malformed(f) ==
    /\ f.status \in {"modified", "added"}
    /\ \E i \in 1..Len(f.patch) : f.patch[i] = OtherLine

\* C9: a malformed fragment costs its own file only: handle_pr catches the error,
\* skips the file, sets no commit status and goes on to the remaining files.
C9_MalformedFragmentScopedToFile ==
    (lastPass.ran /\ \E f \in Range(prFiles) : Malformed(f)) =>
        /\ lastPass.crashed = "none"
        /\ lastPass.status = <<>>
        /\ \A f \in Range(prFiles) :
               f.filename \in lastPass.worked \cup lastPass.skipped \cup lastPass.failed

\* The comments on the pull request when the last pass began.
ExistingBefore == SubSeq(comments, 1, Len(comments) - Len(lastPass.posted))

\* The comments the last pass posted on the file named path, in posting order.
PostedOn(path) == SelectSeq(lastPass.posted, LAMBDA c : c.path = path)

\* The files of the last pass that were processed: taken up, and analysed.
Processed == {f \in Range(prFiles) : f.filename \in lastPass.worked \ lastPass.failed}

\* The eligible issues of a processed file on a line, in discovery order: found on the
\* line, the line added, and the issue not on the pass's ledger of reported issues for
\* the line.
EligibleIssues(f, lineno) ==
    LET ledger == issues_by_line(ExistingBefore, f.filename) IN
    IF lineno \in DOMAIN f.issues /\ lineno \in DOMAIN Farcy_added_lines(f.patch).added
    THEN SelectSeq(f.issues[lineno],
                   LAMBDA v : v \notin Range(DictGet(ledger, lineno, <<>>)))
    ELSE <<>>

EligibleLinesOf(f) == {l \in DOMAIN f.issues : EligibleIssues(f, l) # <<>>}

C15_GetIssuesFailureCaught ==
    (lastPass.ran /\ lastPass.failed # {}) =>
        /\ lastPass.crashed = "none"
        /\ lastPass.status = <<>>
        /\ \A f \in Range(prFiles) :
               f.filename \in lastPass.worked \cup lastPass.skipped

(***************************************************************************)
(* Spec: the polling loop of Farcy.events against the repository's feed.   *)
(* The service numbers the events 1, 2, ... as they occur and serves them  *)
(* newest first.                                                           *)
(***************************************************************************)
\* Farcy.EVENTS, and a type outside it
EVENTS == {"PullRequestEvent", "PushEvent"}
EventTypes == EVENTS \cup {"WatchEvent"}

\* X-Poll-Interval values
PollIntervals == {60, 120}

\* bool(x) for an int or None
Truthy(x) == x # NoneInt /\ x # 0

\* x or y
Or(x, y) == IF Truthy(x) THEN x ELSE y

Event(id, type, created_at) == [id |-> id, type |-> type, created_at |-> created_at]

\* Every feed of n events that occurred at time 0, newest first.
RECURSIVE OldFeeds(_)
OldFeeds(n) ==
    IF n = 0 THEN {<<>>}
    ELSE {<<Event(n, t, 0)>> \o f : t \in EventTypes, f \in OldFeeds(n - 1)}

\* Farcy.__init__, lines 145-150, at time 1: --start given, or not.
InitEvents ==
    /\ clock = 1
    /\ \E n \in 0..MaxOldEvents : feed \in OldFeeds(n)
    /\ \E start_event \in {NoneInt} \cup 1..MaxStartEvent :
           IF Truthy(start_event)
           THEN start_time = NoneInt /\ last_event_id = start_event - 1
           ELSE start_time = clock /\ last_event_id = NoneInt
    /\ etag = NoneInt /\ sleep_time = NoneInt
    /\ history = <<>> /\ cycle = NoCycle
    /\ pcEvents = "polling"
    /\ IdlePatch /\ IdleLedger /\ IdleReview /\ IdleRun /\ IdleText

\* A mutant: an event one past the cursor is taken for seen.
AlreadySeenOnePast(event, last, start) ==
    \/ Truthy(last) /\ event.id <= last + 1
    \/ start # NoneInt /\ event.created_at < start

\* The stop test of lines 197-198.
AlreadySeen(event, last, start) ==
    \/ Truthy(last) /\ event.id <= last
    \/ start # NoneInt /\ event.created_at < start

\* The loop of lines 193-206 from the i-th event of the iterator on: the buffer
\* `events` and itr_first_id.
RECURSIVE Walk(_, _, _, _, _)
Walk(itr, i, acc, last, start) ==
    IF i > Len(itr) THEN acc
    ELSE LET event == itr[i]
             acc1 == [acc EXCEPT !.itr_first_id = Or(@, event.id)]
         IN  IF AlreadySeen(event, last, start) THEN acc1
             ELSE Walk(itr, i + 1,
                       IF event.type \in EVENTS
                       THEN [acc1 EXCEPT !.events = <<event>> \o @]   \* insert(0, event)
                       ELSE acc1,
                       last, start)

\* A mutant: the cursor only ever moves forward.
ForwardLastEventId(itr_first_id, last) ==
    IF itr_first_id > last THEN itr_first_id ELSE last

\* A mutant: the cursor is never moved.
KeepLastEventId(itr_first_id, last) == last

\* Line 209: self.last_event_id = itr_first_id or self.last_event_id
NextLastEventId(itr_first_id, last) == Or(itr_first_id, last)

\* The ETag of the feed as it stands.
FeedETag(f) == Len(f)

\* self.repo.events(etag=etag): nothing when the feed has not changed since `tag`.
RepoEvents(f, tag) == IF tag = FeedETag(f) THEN <<>> ELSE f

\* Something happens in the repository.
ServiceEvent ==
    /\ pcEvents = "polling"
    /\ Len(feed) < MaxEvents
    /\ \E t \in EventTypes : feed' = <<Event(Len(feed) + 1, t, clock)>> \o feed
    /\ UNCHANGED <<clock, start_time, last_event_id, etag, sleep_time, history, cycle,
                   pcEvents, patchVars, ledgerVars, reviewVars, runVars, textVars>>

Tick ==
    /\ pcEvents = "polling"
    /\ clock < MaxClock
    /\ clock' = clock + 1
    /\ UNCHANGED <<feed, start_time, last_event_id, etag, sleep_time, history, cycle,
                   pcEvents, patchVars, ledgerVars, reviewVars, runVars, textVars>>

\* One cycle of the while loop of Farcy.events, lines 188-219: fetch, walk, move the
\* cursor, yield the buffer oldest first, sleep.  int(None) raises TypeError when the
\* response carries no X-Poll-Interval and no interval was used before.
Poll ==
    /\ pcEvents = "polling"
    /\ Len(history) < MaxPolls
    /\ LET itr == RepoEvents(feed, etag)
           w == Walk(itr, 1, [events |-> <<>>, itr_first_id |-> NoneInt],
                     last_event_id, start_time)
       IN  /\ etag' = FeedETag(feed)
           /\ last_event_id' = NextLastEventId(w.itr_first_id, last_event_id)
           /\ history' = Append(history, [i \in 1..Len(w.events) |-> w.events[i].id])
           /\ \E hint \in {NoneInt} \cup PollIntervals :
                  LET next_sleep == IF hint # NoneInt THEN hint ELSE sleep_time IN
                  /\ cycle' = [itr |-> itr, last_event_id |-> last_event_id,
                               hint |-> hint, sleep_time |-> sleep_time]
                  /\ IF next_sleep = NoneInt
                     THEN pcEvents' = "crashed" /\ UNCHANGED sleep_time
                     ELSE sleep_time' = next_sleep /\ UNCHANGED pcEvents
    /\ UNCHANGED <<feed, clock, start_time, patchVars, ledgerVars, reviewVars,
                   runVars, textVars>>

Next == ServiceEvent \/ Tick \/ Poll

Init == InitEvents

Spec == Init /\ [][Next]_vars

\* C2: no poll cycle yields an event identifier that an earlier cycle yielded, and each
\* cycle yields its events in strictly ascending identifier order.
C2_NoRedeliveryAscending ==
    /\ \A i, j \in 1..Len(history) :
           i < j => Range(history[i]) \cap Range(history[j]) = {}
    /\ \A i \in 1..Len(history) :
           \A a, b \in 1..Len(history[i]) : a < b => history[i][a] < history[i][b]

\* Reached: a cycle that yielded two events, after a cycle that yielded some.
C2_Witness ==
    \E i, j \in 1..Len(history) :
        i < j /\ Len(history[i]) >= 1 /\ Len(history[j]) >= 2

\* C12: after a poll cycle whose feed returned at least one entry, last_event_id is the
\* identifier of the first (newest) entry of that feed, whatever its type and whether or
\* not the walk stopped at it; after a cycle whose feed returned nothing it is unchanged.
C12_CursorIsNewestEntry ==
    Len(history) > 0 =>
        IF cycle.itr # <<>>
        THEN last_event_id = cycle.itr[1].id
        ELSE last_event_id = cycle.last_event_id

\* Reached: a cycle whose newest entry is of no interest and stopped the walk, and whose
\* identifier is the cursor all the same.
C12_Witness ==
    /\ Len(history) > 0 /\ cycle.itr # <<>>
    /\ cycle.itr[1].type \notin EVENTS
    /\ AlreadySeen(cycle.itr[1], cycle.last_event_id, start_time)
    /\ last_event_id = cycle.itr[1].id
    /\ last_event_id # cycle.last_event_id

\* How many times x occurs in the sequence s.
Count(s, x) == Cardinality({i \in 1..Len(s) : s[i] = x})

\* The entries of a fetched feed that a cycle owes the consumer: pull request and push
\* events past the cursor the cycle began with and, under a time-based start, not
\* earlier than the start time.
Owed(itr, last, start) ==
    {i \in 1..Len(itr) :
        /\ itr[i].type \in EVENTS
        /\ last # NoneInt => itr[i].id > last
        /\ start # NoneInt => itr[i].created_at >= start}

\* C13: no gap. Every pull request or push event of the fetched feed whose identifier is
\* greater than last_event_id at the start of the cycle (and, under a time-based start,
\* whose timestamp is not earlier than the start time) is yielded in that cycle, once.
C13_NoGap ==
    Len(history) > 0 =>
        \A i \in Owed(cycle.itr, cycle.last_event_id, start_time) :
            Count(history[Len(history)], cycle.itr[i].id) = 1

\* Reached: a cycle that began with a recorded identifier, fetched entries on both sides
\* of it, and yielded the two it owed.
C13_Witness ==
    /\ Len(history) > 0
    /\ Truthy(cycle.last_event_id)
    /\ Cardinality(Owed(cycle.itr, cycle.last_event_id, start_time)) = 2
    /\ \E i \in 1..Len(cycle.itr) : cycle.itr[i].id <= cycle.last_event_id
    /\ Len(history[Len(history)]) = 2

\* C14: in every state exactly one of last_event_id and start_time is not None.
C14_ExactlyOneCursor ==
    (last_event_id # NoneInt) # (start_time # NoneInt)

\* C20: the loop never ends on its own. After every poll cycle it goes on polling, and
\* the interval it slept for is the hint that came with the feed or, when none came (the
\* first cycle included), the interval used before, which is an interval.
C20_LoopSleepsAndGoesOn ==
    Len(history) > 0 =>
        /\ pcEvents = "polling"
        /\ sleep_time = (IF cycle.hint # NoneInt THEN cycle.hint ELSE cycle.sleep_time)
        /\ sleep_time \in PollIntervals

\* C23: once the starting point is established, last_event_id never decreases from one
\* poll cycle to the next, whatever the feed holds and whatever --start was given, a
\* start_event above the newest identifier in the feed included.
C23_CursorNeverDecreases ==
    (Len(history) > 0 /\ cycle.last_event_id # NoneInt) =>
        last_event_id >= cycle.last_event_id

(***************************************************************************)
(* SpecRun: Farcy.run dispatching events to PullRequestEvent and PushEvent,*)
(* handle_pr posting its comments and status one request at a time, and an *)
(* interrupt from outside.  Names of branches and refs are held as the     *)
(* pieces between their '/'.                                               *)
(***************************************************************************)
\* pr.head.ref of the repository's pull requests, by pull request number.
HeadRefs == << <<"x">>, <<"feature", "x">> >>
PullNumbers == DOMAIN HeadRefs

\* Where pushes go: the heads of the pull requests, a branch with none, and a tag.
PushRefs ==
    {<<"refs", "heads">> \o b : b \in Range(HeadRefs) \cup {<<"y">>}}
    \cup {<<"refs", "tags", "v1">>}

PullRequestActions == {"opened", "closed", "reopened", "synchronize"}

\* The events run() can be handed.
RunEvents ==
    {[type |-> "PullRequestEvent", action |-> a, number |-> n, ref |-> HeadRefs[n]] :
         a \in PullRequestActions, n \in PullNumbers}
    \cup {[type |-> "PushEvent", action |-> "", number |-> NoPull, ref |-> r] :
              r \in PushRefs}

\* pr.files() and pr.commits() of every pull request here: one modified file, an issue
\* on each of its two added lines.
RunFiles ==
    << PFile("a.py", "modified", <<HunkLine(1), DelLine, AddLine, AddLine>>,
             [raises |-> FALSE, issues |-> [l \in {1, 2} |-> <<<<"E">>>>]]) >>
RunCommits == <<"c1">>

\* The requests a pass of handle_pr makes of the service, in order: the review
\* comments, then the status.
Plan(number) ==
    LET r == ReviewPass(RunFiles, RunCommits, pulls[number].comments) IN
    [i \in 1..Len(r.posted) |-> [kind |-> "comment", what |-> Stored(r.posted[i])]]
    \o [i \in 1..Len(r.status) |-> [kind |-> "status", what |-> r.status[i]]]

\* Lines 159-163: open_prs[pr.head.ref] = pr for the pull requests that are open.
Snapshot(open) ==
    [ref \in {HeadRefs[n] : n \in open} |-> CHOOSE n \in open : HeadRefs[n] = ref]

InitRun ==
    /\ \E open \in SUBSET PullNumbers :
           open_prs = Snapshot(open) /\ snapshot = {HeadRefs[n] : n \in open}
    /\ lastAction = EmptyDict /\ openBefore = EmptyDict
    /\ pulls = [n \in PullNumbers |-> [comments |-> <<>>, statuses |-> <<>>]]
    /\ lastEvent = NoEvent /\ handled = <<>>
    /\ current = NoPull /\ todo = <<>> /\ emitted = <<>>
    /\ dispatched = 0
    /\ pcRun = "waiting"
    /\ IdlePatch /\ IdleLedger /\ IdleReview /\ IdleEvents /\ IdleText

\* self.handle_pr(pr), entered: lines 240-245 return when the refreshed pull request
\* is not open; otherwise the pass begins.
handle_pr(number) ==
    /\ handled' = <<number>>
    /\ \E state \in {"open", "closed"} :
           IF state # "open"
           THEN UNCHANGED <<current, todo, emitted, pcRun>>
           ELSE /\ current' = number
                /\ todo' = Plan(number)
                /\ emitted' = <<>>
                /\ pcRun' = "handling"

\* A mutant: the key is left in place.
DictKeep(d, key) == d

\* del d[key]
DictDel(d, key) == [x \in (DOMAIN d) \ {key} |-> d[x]]

\* run() hands a PullRequestEvent to Farcy.PullRequestEvent, lines 330-347.
PullRequestEvent ==
    /\ pcRun = "waiting"
    /\ dispatched < MaxDispatch
    /\ \E event \in {e \in RunEvents : e.type = "PullRequestEvent"} :
           /\ lastEvent' = event
           /\ lastAction' = IF event.action \in {"opened", "closed", "reopened"}
                             THEN DictSet(lastAction, event.ref, event.action)
                             ELSE lastAction
           /\ IF event.action = "closed"
              THEN /\ open_prs' = IF event.ref \in DOMAIN open_prs
                                  THEN DictDel(open_prs, event.ref)
                                  ELSE open_prs
                   /\ handled' = <<>>
                   /\ UNCHANGED <<current, todo, emitted, pcRun>>
              ELSE IF event.action = "opened"
              THEN /\ open_prs' = DictSet(open_prs, event.ref, event.number)
                   /\ handle_pr(event.number)
              ELSE IF event.action = "reopened"
              THEN /\ open_prs' = DictSet(open_prs, event.ref, event.number)
                   /\ handled' = <<>>
                   /\ UNCHANGED <<current, todo, emitted, pcRun>>
              ELSE /\ handled' = <<>>
                   /\ UNCHANGED <<open_prs, current, todo, emitted, pcRun>>
    /\ dispatched' = dispatched + 1
    /\ openBefore' = open_prs
    /\ UNCHANGED <<pulls, snapshot, patchVars, ledgerVars, reviewVars, eventVars, textVars>>

\* ref.startswith('refs/heads/')
IsHeadRef(ref) == Len(ref) >= 3 /\ SubSeq(ref, 1, 2) = <<"refs", "heads">>

\* ref.rsplit('/', 1)[1]: what follows the last '/'
RSplitLast(ref) == <<ref[Len(ref)]>>

\* run() hands a PushEvent to Farcy.PushEvent, lines 349-355.
PushEvent ==
    /\ pcRun = "waiting"
    /\ dispatched < MaxDispatch
    /\ \E event \in {e \in RunEvents : e.type = "PushEvent"} :
           /\ lastEvent' = event
           /\ IF ~IsHeadRef(event.ref)
              THEN /\ pcRun' = "crashed"      \* AssertionError, caught nowhere
                   /\ handled' = <<>>
                   /\ UNCHANGED <<current, todo, emitted>>
              ELSE LET pull_request == DictGet(open_prs, RSplitLast(event.ref), NoPull) IN
                   IF pull_request # NoPull
                   THEN handle_pr(pull_request)
                   ELSE /\ handled' = <<>>
                        /\ UNCHANGED <<current, todo, emitted, pcRun>>
    /\ dispatched' = dispatched + 1
    /\ openBefore' = open_prs
    /\ UNCHANGED <<open_prs, pulls, snapshot, lastAction,
                   patchVars, ledgerVars, reviewVars, eventVars, textVars>>

\* The pass in progress makes its next request: pr.create_review_comment (line 308) or
\* repo.create_status (line 323).
Emit ==
    /\ pcRun = "handling"
    /\ todo # <<>>
    /\ LET e == Head(todo) IN
       /\ pulls' = [pulls EXCEPT ![current] =
                        IF e.kind = "comment"
                        THEN [@ EXCEPT !.comments = Append(@, e.what)]
                        ELSE [@ EXCEPT !.statuses = Append(@, e.what)]]
       /\ emitted' = Append(emitted, e)
    /\ todo' = Tail(todo)
    /\ UNCHANGED <<open_prs, lastEvent, handled, current, dispatched, pcRun,
                   snapshot, lastAction, openBefore,
                   patchVars, ledgerVars, reviewVars, eventVars, textVars>>

\* handle_pr returns; run() goes back to waiting for an event.
EndPass ==
    /\ pcRun = "handling"
    /\ todo = <<>>
    /\ pcRun' = "waiting"
    /\ current' = NoPull
    /\ UNCHANGED <<open_prs, pulls, lastEvent, handled, todo, emitted, dispatched,
                   snapshot, lastAction, openBefore,
                   patchVars, ledgerVars, reviewVars, eventVars, textVars>>

\* Ctrl+C: KeyboardInterrupt is raised wherever the program is; nothing below main
\* catches it (lines 371-373), and main returns.
Interrupt ==
    /\ pcRun \in {"waiting", "handling"}
    /\ pcRun' = "exited"
    /\ UNCHANGED <<open_prs, pulls, lastEvent, handled, current, todo, emitted,
                   dispatched, snapshot, lastAction, openBefore,
                   patchVars, ledgerVars, reviewVars, eventVars, textVars>>

NextRun == PullRequestEvent \/ PushEvent \/ Emit \/ EndPass \/ Interrupt

SpecRun == InitRun /\ [][NextRun]_vars

\* C16: an interrupt that arrives while handle_pr is in progress makes the run loop
\* exit only once the pass is complete: the program never exits with some but not all
\* of the pass's review comments and status posted.
C16_InterruptCompletesPass ==
    pcRun = "exited" => (emitted = <<>> \/ todo = <<>>)

\* C17: a push to refs/heads/B, for any branch name B, one that contains '/' included,
\* has handle_pr called on exactly the pull request open_prs holds under B, and on none
\* when B is not a key of open_prs.
C17_PushRoutedByBranch ==
    (lastEvent.type = "PushEvent" /\ IsHeadRef(lastEvent.ref)) =>
        LET B == SubSeq(lastEvent.ref, 3, Len(lastEvent.ref)) IN
        handled = (IF B \in DOMAIN open_prs THEN <<open_prs[B]>> ELSE <<>>)

\* The head branches that events or the startup snapshot can name.
Branches == Range(HeadRefs)

\* C21: open_prs holds branch B iff the latest 'opened', 'closed' or 'reopened'
\* PullRequestEvent for B was 'opened' or 'reopened' or, when there was none, B had an
\* open pull request in the startup snapshot; a PushEvent, and a PullRequestEvent with
\* any other action, leaves open_prs as it was; and a 'closed' event for a branch that
\* open_prs does not hold raises no error.
C21_OpenPRsFollowEvents ==
    /\ \A B \in Branches \cup DOMAIN open_prs :
           B \in DOMAIN open_prs <=>
               IF B \in DOMAIN lastAction
               THEN lastAction[B] \in {"opened", "reopened"}
               ELSE B \in snapshot
    /\ (\/ lastEvent.type = "PushEvent"
        \/ /\ lastEvent.type = "PullRequestEvent"
           /\ lastEvent.action \notin {"opened", "closed", "reopened"})
           => open_prs = openBefore
    /\ (lastEvent.type = "PullRequestEvent" /\ lastEvent.action = "closed")
           => pcRun # "crashed"

\* Reached: a 'closed' event for a branch open_prs did not hold, handled without error,
\* after a branch that was not open at startup was reopened.
C21_Witness ==
    /\ lastEvent.type = "PullRequestEvent" /\ lastEvent.action = "closed"
    /\ lastEvent.ref \notin DOMAIN openBefore
    /\ pcRun = "waiting"
    /\ \E B \in Branches \ snapshot :
           /\ B \in DOMAIN lastAction /\ lastAction[B] = "reopened"
           /\ B \in DOMAIN open_prs

(***************************************************************************)
(* SpecText: a comment body, written by handle_pr or by someone else, and  *)
(* read back by is_farcy_comment and extract_issues.                       *)
(***************************************************************************)
\* The characters of an issue message: none of them a newline.
MsgChars == {"E", "*", " "}

\* Single-line issue messages, the empty one included.
TextMsgs == SeqsUpTo(MsgChars, MaxMsgLen)

\* First lines that handle_pr does not write: the marker alone, the marker and other
\* text, the marker and another version's tag, the sentinel line after a blank, and
\* text without the marker.
OtherFirstLines ==
    { IS_FARCY_COMMENT,
      IS_FARCY_COMMENT \o <<"E">>,
      IS_FARCY_COMMENT \o <<"v", "0.9_">>,
      <<" ">> \o FARCY_COMMENT_START,
      <<"v", "1.0_">>,
      <<"E">> }

InitText ==
    /\ messages \in SeqsUpTo(TextMsgs, MaxMsgs)
    /\ body = <<>> /\ author = "none" /\ parsed = NoParse
    /\ pcText = "input"
    /\ IdlePatch /\ IdleLedger /\ IdleReview /\ IdleEvents /\ IdleRun

\* handle_pr, lines 288-306: the body of the comment on a line whose issues are
\* `messages`; a line comes to by_line only with an issue.
BuildBody ==
    /\ pcText = "input"
    /\ messages # <<>>
    /\ LET lineno == 1
           by_line == CommentLines([l \in {lineno} |-> lineno],
                                   [l \in {lineno} |-> messages])
       IN  body' = Join(by_line[lineno], NL)
    /\ author' = "farcy"
    /\ pcText' = "written"
    /\ UNCHANGED <<messages, parsed, patchVars, ledgerVars, reviewVars, eventVars,
                   runVars>>

\* Someone else writes a review comment: some first line, then bulleted lines.
WriteOther ==
    /\ pcText = "input"
    /\ \E first \in OtherFirstLines :
           body' = Join(<<first>> \o [i \in 1..Len(messages) |-> Bullet(messages[i])],
                        NL)
    /\ author' = "other"
    /\ pcText' = "written"
    /\ UNCHANGED <<messages, parsed, patchVars, ledgerVars, reviewVars, eventVars,
                   runVars>>

\* The body is read back: helpers.is_farcy_comment and helpers.extract_issues.
ReadBody ==
    /\ pcText = "written"
    /\ parsed' = [recognized |-> is_farcy_comment(body), issues |-> extract_issues(body)]
    /\ pcText' = "done"
    /\ UNCHANGED <<messages, body, author, patchVars, ledgerVars, reviewVars,
                   eventVars, runVars>>

NextText == BuildBody \/ WriteOther \/ ReadBody

SpecText == InitText /\ [][NextText]_vars

\* The body handle_pr built is recognized, and its messages come back in order.
RoundTrip ==
    (pcText = "done" /\ author = "farcy") =>
        parsed.recognized /\ parsed.issues = messages

\* text begins with the sentinel marker followed by a version tag, of any version.
BeginsWithMarkerAndTag(text) == StartsWith(text, IS_FARCY_COMMENT \o <<"v">>)

\* C22: for every non-empty list of single-line issue messages, the body handle_pr
\* builds is recognized by is_farcy_comment and extract_issues returns exactly those
\* messages, in order; and a body that does not begin with the sentinel marker followed
\* by a version tag yields no issues.
C22_CommentRoundTrip ==
    /\ RoundTrip
    /\ (pcText = "done" /\ ~BeginsWithMarkerAndTag(body)) => parsed.issues = <<>>

\* C22 as amended: the round trip as stated; and a body that does not begin with the
\* sentinel marker is not recognized and yields no issues, while a body that begins
\* with the marker is recognized whether or not a version tag follows it.
C22_CommentRoundTripAmended ==
    /\ RoundTrip
    /\ pcText = "done" =>
           /\ parsed.recognized <=> StartsWith(body, IS_FARCY_COMMENT)
           /\ ~StartsWith(body, IS_FARCY_COMMENT) => parsed.issues = <<>>

\* Reached: a body handle_pr built from two messages, one of them itself beginning
\* with the bullet and one empty, read back as those two messages.
C22_Witness ==
    /\ pcText = "done" /\ author = "farcy"
    /\ messages = << <<"*", " ">>, <<>> >>
    /\ parsed.recognized /\ parsed.issues = messages

====
